---- MODULE Spec2Model ----
(***************************************************************************)
(* Model of the request broker and of the load client of                   *)
(* dwladdimiroc/load-serverless.                                           *)
(*                                                                         *)
(* Two brokers live in the repository:                                     *)
(*   - src/broker/broker.go : hand-rolled forwarding (specification Spec), *)
(*   - src/unnamed/part_003 : forwarding through httputil.ReverseProxy     *)
(*     behind a statusRecorder (specification SpecProxy).                  *)
(* Both share the handler skeleton (buffer body, round robin, try first,   *)
(* fail over to second, 502) and differ in serveBackend.                   *)
(* Further specifications: SpecEnv is Spec in a wider environment (bodies  *)
(* that are not buffered, clients that go away), FairSpec is Spec with the *)
(* fairness of the handler goroutines, SpecJoin applies joinURL on its own.*)
(* SpecLoad is the load-generation client of src/unnamed/part_002 (main    *)
(* and its workers), FairLoad is SpecLoad with the fairness of its         *)
(* goroutines.                                                             *)
(*                                                                         *)
(* Every inbound request is served by its own goroutine; a slot of Reqs is *)
(* one such goroutine.  The only state shared by the slots is the atomic   *)
(* counter rr.                                                             *)
(***************************************************************************)
EXTENDS Integers, Sequences, FiniteSets, TLC

(***************************************************************************)
(* Bounds of the model.                                                    *)
(***************************************************************************)
\* number of requests handled concurrently (handler goroutines)
NumReqs == 2
\* number of requests let through to selection in one behaviour (caps rr)
MaxAdmit == 3

\* number of body bytes of a request whose body is not buffered
StreamBodyLen == 4

\* longest path handed to joinURL on its own
MaxPathLen == 3

\* largest -n (number of requests) the load client is started with
MaxRequests == 2
\* largest -c (number of workers) the load client is started with
MaxWorkers == 2

Reqs == 1..NumReqs

(***************************************************************************)
(* Program constants.                                                      *)
(***************************************************************************)
\* broker.go:19  MaxBodyBytes = int64(2 << 20)
MaxBodyBytes == 2097152

StatusOK == 200
StatusRequestEntityTooLarge == 413
StatusBadGateway == 502
StatusServiceUnavailable == 503
StatusGatewayTimeout == 504

\* the methods whose body is buffered (broker.go:76, broker.go:130)
BufferedMethods == {"POST", "PUT", "PATCH"}

\* mustParseURL(FunctionBackendURL), mustParseURL(VMBackendURL): a parsed
\* URL is a record; a path is a sequence of characters.
functionURL ==
    [Scheme |-> "https",
     Host |-> "us-east1-powerful-vine-486914-k3.cloudfunctions.net",
     Path |-> <<>>, RawQuery |-> <<>>]

vmURL ==
    [Scheme |-> "http", Host |-> "10.142.0.3:8080",
     Path |-> <<>>, RawQuery |-> <<>>]

\* the one &http.Transport{...} main builds (broker.go:37-53, part_003:48-59):
\* a transport is its connection pool, named here by the variable that holds it
transport == "transport"

\* b.backends of broker.go (1-based here, 0-based in Go)
backends ==
    << [Name |-> "serverless", BaseURL |-> functionURL, Transport |-> transport],
       [Name |-> "vm", BaseURL |-> vmURL, Transport |-> transport] >>

\* the same two constants of part_003
proxyFunctionURL ==
    [Scheme |-> "https", Host |-> "REPLACE_ME_WITH_YOUR_FUNCTION_URL",
     Path |-> <<>>, RawQuery |-> <<>>]

proxyVMURL ==
    [Scheme |-> "http", Host |-> "121.42.13.82:8080",
     Path |-> <<>>, RawQuery |-> <<>>]

\* b.backends of part_003: the function proxy forces the target's path
\* (newReverseProxyFixedPath), the vm proxy keeps the incoming one
\* (newReverseProxyPreservePath)
proxyBackends ==
    << [Name |-> "function", BaseURL |-> proxyFunctionURL, Mode |-> "fixed",
        Transport |-> transport],
       [Name |-> "vm", BaseURL |-> proxyVMURL, Mode |-> "preserve",
        Transport |-> transport] >>

\* len(b.backends)
N == Len(backends)

(***************************************************************************)
(* http.Header: a function from the keys present to their values.          *)
(***************************************************************************)
EmptyHeader == [k \in {} |-> <<>>]

\* textproto.CanonicalMIMEHeaderKey on the header names of this model: the
\* first letter and every letter after a hyphen in upper case, the others in
\* lower case.  net/http stores every header it parses (a request read by the
\* server, a response read by the client) and every header set through
\* Header.Set, Add and Del under this key.
CanonicalMIMEHeaderKey(k) ==
    CASE k = "TE" -> "Te"
      [] k = "X-Selected-URL" -> "X-Selected-Url"
      [] k = "accept" -> "Accept"
      [] OTHER -> k

\* http.Header.Add
HAdd(h, k, v) ==
    LET ck == CanonicalMIMEHeaderKey(k)
    IN  [x \in (DOMAIN h) \cup {ck} |->
            IF x = ck
            THEN (IF ck \in DOMAIN h THEN h[ck] ELSE <<>>) \o <<v>>
            ELSE h[x]]

\* http.Header.Set
HSet(h, k, v) ==
    LET ck == CanonicalMIMEHeaderKey(k)
    IN  [x \in (DOMAIN h) \cup {ck} |-> IF x = ck THEN <<v>> ELSE h[x]]

\* http.Header.Del
HDel(h, k) == [x \in (DOMAIN h) \ {CanonicalMIMEHeaderKey(k)} |-> h[x]]

\* the header map net/http builds from the header lines of a message, given
\* as <<name, value>> pairs in the order they came
RECURSIVE ReadMIMEHeader(_)
ReadMIMEHeader(lines) ==
    IF lines = <<>>
    THEN EmptyHeader
    ELSE LET n == Len(lines)
         IN  HAdd(ReadMIMEHeader(SubSeq(lines, 1, n - 1)), lines[n][1], lines[n][2])

\* hopByHop of copyHeaders
hopByHop ==
    {"Connection", "Proxy-Connection", "Keep-Alive", "Proxy-Authenticate",
     "Proxy-Authorization", "Te", "Trailer", "Transfer-Encoding", "Upgrade"}

\* the two names copyHeaders compares a key with (broker.go:248), as written
SelectionHeaders == {"X-Selected-Backend", "X-Selected-URL"}

\* copyHeaders(dst, src): for every key k of the map src that is in neither
\* set, dst.Del(k) and dst.Add(k, v) for each value.  The keys of src are
\* compared as they are stored, that is in canonical form.
copyHeaders(dst, src) ==
    LET copied == {k \in DOMAIN src : k \notin hopByHop /\ k \notin SelectionHeaders}
    IN  [k \in (DOMAIN dst) \cup copied |-> IF k \in copied THEN src[k] ELSE dst[k]]

(***************************************************************************)
(* joinURL and its helpers.                                                *)
(***************************************************************************)
RECURSIVE stringsTrimLeftSlash(_)
stringsTrimLeftSlash(s) ==
    IF Len(s) > 0 /\ s[1] = "/" THEN stringsTrimLeftSlash(Tail(s)) ELSE s

RECURSIVE stringsTrimRightSlash(_)
stringsTrimRightSlash(s) ==
    IF Len(s) > 0 /\ s[Len(s)] = "/"
    THEN stringsTrimRightSlash(SubSeq(s, 1, Len(s) - 1))
    ELSE s

\* u.String(), as far as the path goes: with a host, a path that is not
\* empty and does not begin with a slash is written after a slash
URLString(u) ==
    [u EXCEPT !.Path = IF u.Path # <<>> /\ u.Path[1] # "/" /\ u.Host # ""
                       THEN <<"/">> \o u.Path
                       ELSE u.Path]

joinURL(base, path, rawQuery) ==
    LET p == IF path = <<>> THEN <<"/">> ELSE path
        newPath == IF base.Path = <<>> \/ base.Path = <<"/">>
                   THEN p
                   ELSE stringsTrimRightSlash(base.Path) \o <<"/">> \o stringsTrimLeftSlash(p)
    IN  URLString([Scheme |-> base.Scheme, Host |-> base.Host,
                   Path |-> newPath, RawQuery |-> rawQuery])

(***************************************************************************)
(* http.ResponseWriter as the handler sees it: hdr is w.Header(), status   *)
(* is the status line on the wire (0: nothing written yet), sent is the    *)
(* header block that went out with it, body the chunks written after it,   *)
(* calls counts the WriteHeader calls.                                     *)
(***************************************************************************)
FreshWriter ==
    [hdr |-> EmptyHeader, status |-> 0, sent |-> EmptyHeader, body |-> <<>>, calls |-> 0]

WSetHeader(w, k, v) == [w EXCEPT !.hdr = HSet(@, k, v)]

\* the first WriteHeader freezes the header block; later ones are ignored
WWriteHeader(w, code) ==
    IF w.status # 0
    THEN [w EXCEPT !.calls = @ + 1]
    ELSE [w EXCEPT !.status = code, !.sent = w.hdr, !.calls = @ + 1]

\* Write sends an implicit 200 when no status was written
WWrite(w, chunk) ==
    LET w1 == IF w.status = 0
              THEN [w EXCEPT !.status = StatusOK, !.sent = w.hdr]
              ELSE w
    IN  [w1 EXCEPT !.body = Append(@, chunk)]

\* http.Error(w, msg, code)
HttpError(w, msg, code) ==
    LET w1 == [w EXCEPT !.hdr = HSet(HSet(HDel(@, "Content-Length"),
                                          "Content-Type", "text/plain; charset=utf-8"),
                                     "X-Content-Type-Options", "nosniff")]
    IN  WWrite(WWriteHeader(w1, code), msg)

(***************************************************************************)
(* The environment: inbound requests and what a backend answers.           *)
(***************************************************************************)
HealthPath == <<"/", "health">>

\* what a client sends; bodyLen is the number of body bytes (0: the server
\* hands the handler http.NoBody)
Inputs ==
    { [method |-> "GET", path |-> HealthPath, rawQuery |-> <<>>, bodyLen |-> 0],
      [method |-> "POST", path |-> HealthPath, rawQuery |-> <<>>,
       bodyLen |-> MaxBodyBytes + 1],
      [method |-> "GET", path |-> <<"/", "a">>, rawQuery |-> <<"q">>, bodyLen |-> 0],
      [method |-> "POST", path |-> <<"/", "a">>, rawQuery |-> <<"q">>,
       bodyLen |-> MaxBodyBytes],
      [method |-> "POST", path |-> <<"/", "a">>, rawQuery |-> <<"q">>,
       bodyLen |-> MaxBodyBytes + 1] }

\* requests with a body and a method the handler does not buffer
StreamInputs ==
    { [method |-> "DELETE", path |-> <<"/", "a">>, rawQuery |-> <<"q">>,
       bodyLen |-> StreamBodyLen] }

InboundHost == "broker:8080"

\* the listener serves plain HTTP (srv.ListenAndServe)
InboundScheme == "http"

\* the host part of r.RemoteAddr
InboundRemoteIP == "198.51.100.7"

\* a URL somebody else put into a header (URLs are records here)
ForeignURL(host) == [Scheme |-> "http", Host |-> host, Path |-> <<>>, RawQuery |-> <<>>]

\* the header lines of an inbound request as the client wrote them
InboundHeaderLines ==
    << <<"accept", "text/html">>, <<"Accept", "*/*">>,
       <<"Connection", "keep-alive">>, <<"TE", "trailers">>,
       <<"X-Selected-Backend", "client">>, <<"X-Selected-URL", ForeignURL("client")>> >>

\* r.Header
InboundHeader == ReadMIMEHeader(InboundHeaderLines)

\* statuses a backend may answer with: 404 stands for the 4xx, 500 for the
\* 5xx that are no failover triggers (redirects, which http.Client follows
\* itself, are left out)
Statuses == {200, 404, 500, 502, 503, 504}

TransportError == "transportError"

\* what an outbound call can end in: err != nil, or a response
Outcomes ==
    {[kind |-> TransportError, status |-> 0]}
    \cup [kind : {"response"}, status : Statuses]

\* the response of backend name with status s: its errors are plain JSON,
\* its 200 also carries selection headers and a hop-by-hop header of its own
BackendBody(name, s) == <<"body-of", name, s>>

BackendHeader(s) ==
    IF s = StatusOK
    THEN ReadMIMEHeader(<< <<"Content-Type", "application/json">>,
                           <<"X-Selected-Backend", "spoofed">>,
                           <<"X-Selected-URL", ForeignURL("spoofed")>>,
                           <<"Connection", "close">> >>)
    ELSE ReadMIMEHeader(<< <<"Content-Type", "application/json">> >>)

\* how many bytes of the outbound body the transport has read when the call
\* returns: all of them when a response came back, half when the call broke
Consumed(o, len) == IF o.kind = TransportError THEN {len \div 2} ELSE {len}

(***************************************************************************)
(* Values of the handler's locals.                                         *)
(***************************************************************************)
\* no request (an idle slot)
NoRequest ==
    [method |-> "", path |-> <<>>, rawQuery |-> <<>>, host |-> "", hdr |-> EmptyHeader]

\* a body stream of len bytes read up to off; nil: no stream at all
NilBody == [nil |-> TRUE, nobody |-> FALSE, len |-> 0, off |-> 0]

\* http.NoBody
NoBody == [nil |-> FALSE, nobody |-> TRUE, len |-> 0, off |-> 0]

\* var bodyCopy []byte
NilBytes == [nil |-> TRUE, len |-> 0]

\* no outcome yet
Pending == [kind |-> "pending", status |-> 0]

(***************************************************************************)
(* State.                                                                  *)
(***************************************************************************)
VARIABLES
    rr,        \* Broker.rr, the round-robin counter
    sel,       \* history: one record per b.rr.Add(1), in the order of the calls
    pc,        \* per slot: position of the handler goroutine
    in,        \* per slot: the inbound request r
    rbody,     \* per slot: r.Body, a stream with a read offset
    bodyCopy,  \* per slot: bodyCopy of the handler
    first,     \* per slot: index i of first (0-based, as in Go), -1 before
    att,       \* per slot: the outbound requests issued so far, each with
               \*           what serveBackend returned for it
    outBody,   \* per slot: outReq.Body of the outbound request in flight
    resp,      \* per slot: resp, err of the latest outbound request
    w,         \* per slot: the http.ResponseWriter of the client connection
    ctxDone,   \* per slot: r.Context() is done (the client went away)
    join       \* one call of joinURL on its own: arguments and result

\* the load client (part_002)
VARIABLES
    flags,       \* *n and *concurrency, after flag.Parse and the validation
    nextIdx,     \* nextIdx, the next request index to hand out
    okCount,     \* okCount
    errCount,    \* errCount
    status4xx,   \* status4xx
    status5xx,   \* status5xx
    statusOther, \* statusOther
    latencies,   \* latencies, one slot per request index
    startCh,     \* the start barrier: "open" or "closed"
    wg,          \* the counter of the sync.WaitGroup
    worker,      \* per worker: its position, its i, resp/err and dur
    main,        \* main: its position and its ok and errs
    claimed,     \* history: one record per atomic.AddUint64(&nextIdx, 1)
    attempted,   \* history: one record per request a worker went on to make
    stored       \* history: one record per write of a slot of latencies

brokerVars == <<rr, sel, pc, in, rbody, bodyCopy, first, att, outBody, resp, w, ctxDone, join>>

loadVars == <<flags, nextIdx, okCount, errCount, status4xx, status5xx, statusOther,
              latencies, startCh, wg, worker, main, claimed, attempted, stored>>

vars == <<rr, sel, pc, in, rbody, bodyCopy, first, att, outBody, resp, w, ctxDone, join,
          flags, nextIdx, okCount, errCount, status4xx, status5xx, statusOther,
          latencies, startCh, wg, worker, main, claimed, attempted, stored>>

\* no URL
NoURL == [Scheme |-> "", Host |-> "", Path |-> <<>>, RawQuery |-> <<>>]

\* no call of joinURL on its own
NoJoin ==
    [base |-> <<>>, path |-> <<>>, rawQuery |-> <<>>, called |-> FALSE, out |-> NoURL]

InitBroker ==
    /\ rr = 0
    /\ sel = <<>>
    /\ pc = [r \in Reqs |-> "idle"]
    /\ in = [r \in Reqs |-> NoRequest]
    /\ rbody = [r \in Reqs |-> NilBody]
    /\ bodyCopy = [r \in Reqs |-> NilBytes]
    /\ first = [r \in Reqs |-> -1]
    /\ att = [r \in Reqs |-> <<>>]
    /\ outBody = [r \in Reqs |-> NilBody]
    /\ resp = [r \in Reqs |-> Pending]
    /\ w = [r \in Reqs |-> FreshWriter]
    /\ ctxDone = [r \in Reqs |-> FALSE]

\* no resp, err of a worker yet
NoResp == [kind |-> "none", status |-> 0]

\* main of the load client up to the spawning of the workers, started with
\* -n nn and -c cc: the counters are zero, the latencies are zero, the
\* WaitGroup counts cc, the cc workers wait at the start barrier
InitLoadFor(nn, cc) ==
    /\ flags = [n |-> nn, concurrency |-> cc]
    /\ nextIdx = 0
    /\ okCount = 0
    /\ errCount = 0
    /\ status4xx = 0
    /\ status5xx = 0
    /\ statusOther = 0
    /\ latencies = [i \in 0..(nn - 1) |-> 0]
    /\ startCh = "open"
    /\ wg = cc
    /\ worker = [k \in 0..(cc - 1) |-> [pc |-> "barrier", i |-> -1, resp |-> NoResp, dur |-> 0]]
    /\ main = [pc |-> "spawned", ok |-> 0, errs |-> 0]
    /\ claimed = <<>>
    /\ attempted = <<>>
    /\ stored = <<>>

\* no load client: nothing to request, no worker
NoLoad == InitLoadFor(0, 0)

Init ==
    /\ InitBroker
    /\ join = NoJoin
    /\ NoLoad

(***************************************************************************)
(* The listener accepts a request and starts its handler goroutine.        *)
(***************************************************************************)
\* The goroutines are interchangeable: a new request, one of the set S,
\* takes the first free slot.
Accept(r, S) ==
    /\ pc[r] = "idle"
    /\ \A q \in Reqs : q < r => pc[q] # "idle"
    /\ rr + Cardinality({q \in Reqs : pc[q] \in {"received", "select"}}) < MaxAdmit
    /\ \E i \in S :
        /\ in' = [in EXCEPT ![r] = [method |-> i.method, path |-> i.path,
                                    rawQuery |-> i.rawQuery, host |-> InboundHost,
                                    hdr |-> InboundHeader]]
        /\ rbody' = [rbody EXCEPT ![r] =
                        IF i.bodyLen = 0
                        THEN NoBody
                        ELSE [nil |-> FALSE, nobody |-> FALSE, len |-> i.bodyLen, off |-> 0]]
    /\ pc' = [pc EXCEPT ![r] = "received"]
    /\ UNCHANGED <<rr, sel, bodyCopy, first, att, outBody, resp, w>>
    /\ UNCHANGED <<ctxDone, join, loadVars>>

Arrive(r) == Accept(r, Inputs)

\* variant of Health that answers with the status line only
HealthStatusOnly(r) ==
    /\ pc[r] = "received"
    /\ in[r].path = HealthPath
    /\ w' = [w EXCEPT ![r] =
                WWriteHeader(WSetHeader(@, "Content-Type", "text/plain"), StatusOK)]
    /\ pc' = [pc EXCEPT ![r] = "done"]
    /\ UNCHANGED <<rr, sel, in, rbody, bodyCopy, first, att, outBody, resp>>
    /\ UNCHANGED <<ctxDone, join, loadVars>>

\* variant of Health that takes a health check for a request to balance
HealthCounted(r) ==
    /\ pc[r] = "received"
    /\ in[r].path = HealthPath
    /\ w' = [w EXCEPT ![r] =
                WWrite(WWriteHeader(WSetHeader(@, "Content-Type", "text/plain"), StatusOK),
                       "ok")]
    /\ pc' = [pc EXCEPT ![r] = "done"]
    /\ rr' = rr + 1
    /\ UNCHANGED <<sel, in, rbody, bodyCopy, first, att, outBody, resp>>
    /\ UNCHANGED <<ctxDone, join, loadVars>>

\* mux.HandleFunc("/health", ...)
Health(r) ==
    /\ pc[r] = "received"
    /\ in[r].path = HealthPath
    /\ w' = [w EXCEPT ![r] =
                WWrite(WWriteHeader(WSetHeader(@, "Content-Type", "text/plain"), StatusOK),
                       "ok")]
    /\ pc' = [pc EXCEPT ![r] = "done"]
    /\ UNCHANGED <<rr, sel, in, rbody, bodyCopy, first, att, outBody, resp>>
    /\ UNCHANGED <<ctxDone, join, loadVars>>

\* variant of readUpTo that limits the read to max instead of max+1
readUpToNoSlack(len, max) ==
    LET b == IF len < max THEN len ELSE max
    IN  [n |-> b, err |-> b > max]

\* readUpTo(rc, max): the number of bytes io.ReadAll(io.LimitReader(rc, max+1))
\* returns for a stream of len bytes, and whether that is over max
readUpTo(len, max) ==
    LET b == IF len < max + 1 THEN len ELSE max + 1
    IN  [n |-> b, err |-> b > max]

\* proxy handler, buffering step (broker.go:73-82)
Buffer(r) ==
    /\ pc[r] = "received"
    /\ in[r].path # HealthPath
    /\ IF ~rbody[r].nil /\ in[r].method \in BufferedMethods
       THEN LET res == readUpTo(rbody[r].len, MaxBodyBytes)
            IN  /\ rbody' = [rbody EXCEPT ![r].off = res.n]
                /\ IF res.err
                   THEN /\ w' = [w EXCEPT ![r] =
                                    HttpError(@, "Request body too large or invalid",
                                              StatusRequestEntityTooLarge)]
                        /\ pc' = [pc EXCEPT ![r] = "done"]
                        /\ UNCHANGED bodyCopy
                   ELSE /\ bodyCopy' = [bodyCopy EXCEPT ![r] = [nil |-> FALSE, len |-> res.n]]
                        /\ pc' = [pc EXCEPT ![r] = "select"]
                        /\ UNCHANGED w
       ELSE /\ pc' = [pc EXCEPT ![r] = "select"]
            /\ UNCHANGED <<rbody, bodyCopy, w>>
    /\ UNCHANGED <<rr, sel, in, first, att, outBody, resp>>
    /\ UNCHANGED <<ctxDone, join, loadVars>>

\* variant of AtomicAdd that loses the update
AtomicAddLost(v, delta) == v

\* atomic.Uint64.Add: the new value (the counter never reaches 2^64 here)
AtomicAdd(v, delta) == v + delta

\* variant of PrimaryIndex that takes the value before the increment
PrimaryIndexFetch(got) == (got - 1) % N

\* i := int(b.rr.Add(1) % uint64(len(b.backends))), from the value Add returned
PrimaryIndex(got) == got % N

\* variant of SecondIndex that picks the primary again
SecondIndexSame(i) == i % N

\* second := b.backends[(i+1)%len(b.backends)]
SecondIndex(i) == (i + 1) % N

\* variant of Select behind a lock held until the response is out: a request
\* draws its counter value only when no other request is being forwarded
SelectSerialised(r) ==
    /\ pc[r] = "select"
    /\ \A q \in Reqs \ {r} : pc[q] \notin {"try", "inflight"}
    /\ rr' = rr + 1
    /\ first' = [first EXCEPT ![r] = (rr + 1) % 2]
    /\ sel' = Append(sel, [pre |-> rr, got |-> rr + 1, idx |-> (rr + 1) % 2])
    /\ pc' = [pc EXCEPT ![r] = "try"]
    /\ UNCHANGED <<in, rbody, bodyCopy, att, outBody, resp, w>>
    /\ UNCHANGED <<ctxDone, join, loadVars>>

\* round robin (broker.go:84-87)
Select(r) ==
    /\ pc[r] = "select"
    /\ LET got == AtomicAdd(rr, 1)
       IN  /\ rr' = got
           /\ first' = [first EXCEPT ![r] = PrimaryIndex(got)]
           /\ sel' = Append(sel, [pre |-> rr, got |-> got, idx |-> PrimaryIndex(got)])
    /\ pc' = [pc EXCEPT ![r] = "try"]
    /\ UNCHANGED <<in, rbody, bodyCopy, att, outBody, resp, w>>
    /\ UNCHANGED <<ctxDone, join, loadVars>>

(***************************************************************************)
(* serveBackend of broker.go, in two steps: the outbound request is built  *)
(* and handed to the transport (Forward), then the call returns and its    *)
(* outcome is classified and, when accepted, relayed (Complete).           *)
(***************************************************************************)
\* the methods net/http accepts on an inbound request line
ValidMethods == {"GET", "HEAD", "POST", "PUT", "PATCH", "DELETE", "OPTIONS"}

\* http.NewRequestWithContext fails on a method that is no token (the
\* target URL, printed by url.URL.String, always parses)
NewRequestErr(method) == method \notin ValidMethods

\* variant of AttemptIndex with a memory of failures: it avoids a backend
\* that has just failed for another request
AttemptIndexAvoiding(r) ==
    LET plain == IF Len(att[r]) = 0 THEN first[r] ELSE SecondIndex(first[r])
    IN  IF \E q \in Reqs \ {r} :
                Len(att[q]) >= 1 /\ att[q][1].ok = "false" /\ att[q][1].be = plain
        THEN SecondIndex(plain)
        ELSE plain

\* the backend an attempt goes to: first, then second (broker.go:90-95)
AttemptIndex(r) == IF Len(att[r]) = 0 THEN first[r] ELSE SecondIndex(first[r])

\* is the body of the inbound request handed on as it is (broker.go:135-138)
PassThrough(r) ==
    /\ ~(~bodyCopy[r].nil /\ in[r].method \in BufferedMethods)
    /\ ~rbody[r].nil /\ ~rbody[r].nobody

\* variant of AttemptBody that keeps one reader for all the attempts: the
\* second attempt goes on where the first one stopped
AttemptBodyReused(r) ==
    IF ~bodyCopy[r].nil /\ in[r].method \in BufferedMethods
    THEN [nil |-> FALSE, nobody |-> FALSE, len |-> bodyCopy[r].len,
          off |-> IF Len(att[r]) = 0 THEN 0 ELSE att[r][Len(att[r])].consumed]
    ELSE IF ~rbody[r].nil /\ ~rbody[r].nobody
         THEN rbody[r]
         ELSE NilBody

\* outReq.Body (broker.go:129-139): a fresh reader over bodyCopy, or r.Body
AttemptBody(r) ==
    IF ~bodyCopy[r].nil /\ in[r].method \in BufferedMethods
    THEN [nil |-> FALSE, nobody |-> FALSE, len |-> bodyCopy[r].len, off |-> 0]
    ELSE IF ~rbody[r].nil /\ ~rbody[r].nobody
         THEN rbody[r]
         ELSE NilBody

\* outReq.ContentLength (broker.go:132)
AttemptContentLength(r) ==
    IF ~bodyCopy[r].nil /\ in[r].method \in BufferedMethods THEN bodyCopy[r].len ELSE 0

\* http.Error(w, "Both backends failed", http.StatusBadGateway)
BothFailed(wr) == HttpError(wr, "Both backends failed", StatusBadGateway)

Forward(r) ==
    /\ pc[r] = "try"
    /\ LET be == backends[AttemptIndex(r) + 1]
           targetURL == joinURL(be.BaseURL, in[r].path, in[r].rawQuery)
           body == AttemptBody(r)
       IN  IF NewRequestErr(in[r].method)
           THEN \* serveBackend returns false before any outbound call
                /\ att' = [att EXCEPT ![r] =
                            Append(@, [be |-> AttemptIndex(r), name |-> be.Name,
                                       transport |-> be.Transport,
                                       url |-> targetURL, method |-> in[r].method,
                                       host |-> "", hdr |-> EmptyHeader,
                                       sent |-> FALSE, hasBody |-> FALSE,
                                       from |-> 0, to |-> 0, contentLength |-> 0,
                                       consumed |-> 0, ok |-> "false"])]
                /\ IF Len(att[r]) = 0
                   THEN /\ pc' = [pc EXCEPT ![r] = "try"]
                        /\ UNCHANGED w
                   ELSE /\ pc' = [pc EXCEPT ![r] = "done"]
                        /\ w' = [w EXCEPT ![r] = BothFailed(@)]
                /\ UNCHANGED <<outBody, resp>>
           ELSE /\ att' = [att EXCEPT ![r] =
                            Append(@, [be |-> AttemptIndex(r), name |-> be.Name,
                                       transport |-> be.Transport,
                                       url |-> targetURL, method |-> in[r].method,
                                       host |-> be.BaseURL.Host,
                                       hdr |-> copyHeaders(EmptyHeader, in[r].hdr),
                                       sent |-> TRUE, hasBody |-> ~body.nil,
                                       from |-> body.off, to |-> body.len,
                                       contentLength |-> AttemptContentLength(r),
                                       consumed |-> 0, ok |-> "pending"])]
                /\ outBody' = [outBody EXCEPT ![r] = body]
                /\ resp' = [resp EXCEPT ![r] = Pending]
                /\ pc' = [pc EXCEPT ![r] = "inflight"]
                /\ UNCHANGED w
    /\ UNCHANGED <<rr, sel, in, rbody, bodyCopy, first>>
    /\ UNCHANGED <<ctxDone, join, loadVars>>

\* variant of failover that takes every 5xx for a failure of the backend
failoverAny5xx(o) ==
    \/ o.kind = TransportError
    \/ o.status >= 500

\* the failover test of serveBackend (broker.go:143-153)
failover(o) ==
    \/ o.kind = TransportError
    \/ o.status \in {StatusBadGateway, StatusServiceUnavailable, StatusGatewayTimeout}

\* the response a backend sends for outcome o
Response(be, o) ==
    [status |-> o.status, hdr |-> BackendHeader(o.status),
     body |-> BackendBody(be.Name, o.status)]

\* variant of Relay that forgets to copy the upstream header
RelayNoCopy(wr, be, targetURL, rsp) ==
    LET w1 == WSetHeader(wr, "X-Selected-Backend", be.Name)
        w2 == WSetHeader(w1, "X-Selected-URL", targetURL)
        w4 == WWriteHeader(w2, rsp.status)
    IN  WWrite(w4, rsp.body)

\* the relay of serveBackend (broker.go:155-167)
Relay(wr, be, targetURL, rsp) ==
    LET w1 == WSetHeader(wr, "X-Selected-Backend", be.Name)
        w2 == WSetHeader(w1, "X-Selected-URL", targetURL)
        w3 == [w2 EXCEPT !.hdr = copyHeaders(@, rsp.hdr)]
        w4 == WWriteHeader(w3, rsp.status)
    IN  WWrite(w4, rsp.body)

\* the outbound call returns with outcome o; serveBackend classifies it and
\* relays or returns false, and the handler goes on (broker.go:89-97).  The
\* outbound request carries r.Context(): once that is done, Do returns its
\* error.
Complete(r, o) ==
    /\ pc[r] = "inflight"
    /\ ctxDone[r] => o.kind = TransportError
    /\ LET n == Len(att[r])
           a == att[r][n]
           be == backends[a.be + 1]
       IN  /\ resp' = [resp EXCEPT ![r] = o]
           /\ \E k \in Consumed(o, outBody[r].len - outBody[r].off) :
                /\ outBody' = [outBody EXCEPT ![r] = NilBody]
                /\ rbody' = IF PassThrough(r)
                            THEN [rbody EXCEPT ![r].off = @ + k]
                            ELSE rbody
                /\ att' = [att EXCEPT ![r][n].consumed = k,
                                      ![r][n].ok = IF failover(o) THEN "false" ELSE "true"]
           /\ IF failover(o)
              THEN IF n = 1
                   THEN /\ pc' = [pc EXCEPT ![r] = "try"]
                        /\ UNCHANGED w
                   ELSE /\ pc' = [pc EXCEPT ![r] = "done"]
                        /\ w' = [w EXCEPT ![r] = BothFailed(@)]
              ELSE /\ w' = [w EXCEPT ![r] = Relay(@, be, a.url, Response(be, o))]
                   /\ pc' = [pc EXCEPT ![r] = "done"]
    /\ UNCHANGED <<rr, sel, in, bodyCopy, first>>
    /\ UNCHANGED <<ctxDone, join, loadVars>>

\* the handler has returned; the goroutine ends and the slot is free again
Close(r) ==
    /\ pc[r] = "done"
    /\ pc' = [pc EXCEPT ![r] = "idle"]
    /\ in' = [in EXCEPT ![r] = NoRequest]
    /\ rbody' = [rbody EXCEPT ![r] = NilBody]
    /\ bodyCopy' = [bodyCopy EXCEPT ![r] = NilBytes]
    /\ first' = [first EXCEPT ![r] = -1]
    /\ att' = [att EXCEPT ![r] = <<>>]
    /\ outBody' = [outBody EXCEPT ![r] = NilBody]
    /\ resp' = [resp EXCEPT ![r] = Pending]
    /\ w' = [w EXCEPT ![r] = FreshWriter]
    /\ ctxDone' = [ctxDone EXCEPT ![r] = FALSE]
    /\ UNCHANGED <<rr, sel, join, loadVars>>

Next ==
    \E r \in Reqs :
        \/ Arrive(r)
        \/ Health(r)
        \/ Buffer(r)
        \/ Select(r)
        \/ Forward(r)
        \/ \E o \in Outcomes : Complete(r, o)
        \/ Close(r)

Spec == Init /\ [][Next]_vars

\* a step of the handler goroutine of slot r
HandlerStep(r) ==
    \/ Health(r)
    \/ Buffer(r)
    \/ Select(r)
    \/ Forward(r)
    \/ \E o \in Outcomes : Complete(r, o)

\* The Go scheduler runs every runnable goroutine, and every outbound call
\* returns in the end (a response or an error): a handler that can take a
\* step takes it.  Nothing is assumed about arrivals.
Fairness == \A r \in Reqs : WF_vars(HandlerStep(r))

FairSpec == Spec /\ Fairness

(***************************************************************************)
(* The broker of broker.go in a wider environment: requests that carry a   *)
(* body with a method the handler does not buffer, and clients that go     *)
(* away while an attempt is in flight.                                     *)
(***************************************************************************)
ArriveStreaming(r) == Accept(r, StreamInputs)

\* the client of slot r disconnects while an outbound call is in flight: the
\* server cancels r.Context(), which the outbound request carries
\* (broker.go:119)
Cancel(r) ==
    /\ pc[r] = "inflight"
    /\ ~ctxDone[r]
    /\ ctxDone' = [ctxDone EXCEPT ![r] = TRUE]
    /\ UNCHANGED <<rr, sel, pc, in, rbody, bodyCopy, first, att, outBody, resp, w, join, loadVars>>

EnvNext ==
    \E r \in Reqs :
        \/ Arrive(r)
        \/ ArriveStreaming(r)
        \/ Health(r)
        \/ Buffer(r)
        \/ Select(r)
        \/ Forward(r)
        \/ Cancel(r)
        \/ \E o \in Outcomes : Complete(r, o)
        \/ Close(r)

SpecEnv == Init /\ [][EnvNext]_vars

(***************************************************************************)
(* joinURL on its own, applied once to a base path, an incoming path and a *)
(* raw query drawn from bounded sets.                                      *)
(***************************************************************************)
PathAlphabet == {"/", "a"}

\* the strings over PathAlphabet of length up to MaxPathLen
Paths == UNION {[1..n -> PathAlphabet] : n \in 0..MaxPathLen}

\* the paths a parsed backend URL with a host can have: empty or rooted
BasePaths == {p \in Paths : p = <<>> \/ p[1] = "/"}

RawQueries == {<<>>, <<"q">>}

InitJoin ==
    /\ InitBroker
    /\ NoLoad
    /\ \E b \in BasePaths, p \in Paths, q \in RawQueries :
          join = [base |-> b, path |-> p, rawQuery |-> q, called |-> FALSE, out |-> NoURL]

CallJoinURL ==
    /\ ~join.called
    /\ join' = [join EXCEPT
                    !.called = TRUE,
                    !.out = joinURL([Scheme |-> "http", Host |-> "backend",
                                     Path |-> join.base, RawQuery |-> <<>>],
                                    join.path, join.rawQuery)]
    /\ UNCHANGED <<rr, sel, pc, in, rbody, bodyCopy, first, att, outBody, resp, w, ctxDone, loadVars>>

JoinNext == CallJoinURL

SpecJoin == InitJoin /\ [][JoinNext]_vars

(***************************************************************************)
(* The broker of part_003: the same handler, but serveBackend hands the    *)
(* request to an httputil.ReverseProxy that writes to the client through a *)
(* statusRecorder, and looks at the recorded status afterwards.            *)
(***************************************************************************)
\* mux.HandleFunc("/health", ...) of part_003
ProxyHealth(r) ==
    /\ pc[r] = "received"
    /\ in[r].path = HealthPath
    /\ w' = [w EXCEPT ![r] = WWrite(WWriteHeader(@, StatusOK), "ok")]
    /\ pc' = [pc EXCEPT ![r] = "done"]
    /\ UNCHANGED <<rr, sel, in, rbody, bodyCopy, first, att, outBody, resp>>
    /\ UNCHANGED <<ctxDone, join, loadVars>>

\* the path join of httputil.NewSingleHostReverseProxy
singleJoiningSlash(a, b) ==
    LET aslash == Len(a) > 0 /\ a[Len(a)] = "/"
        bslash == Len(b) > 0 /\ b[1] = "/"
    IN  IF aslash /\ bslash THEN a \o Tail(b)
        ELSE IF ~aslash /\ ~bslash THEN a \o <<"/">> \o b
        ELSE a \o b

\* the Director of each proxy: where the outbound request goes
ProxyTarget(be, path, rawQuery) ==
    IF be.Mode = "fixed"
    THEN [Scheme |-> be.BaseURL.Scheme, Host |-> be.BaseURL.Host,
          Path |-> IF be.BaseURL.Path # <<>> THEN be.BaseURL.Path ELSE <<"/">>,
          RawQuery |-> rawQuery]
    ELSE [Scheme |-> be.BaseURL.Scheme, Host |-> be.BaseURL.Host,
          Path |-> singleJoiningSlash(be.BaseURL.Path, path),
          RawQuery |-> rawQuery]

\* r2.Body (part_003:125-131): a fresh reader over bodyCopy, else the body
\* of the clone, which is r.Body; the proxy drops a body of length 0
ProxyAttemptBody(r) ==
    IF ~bodyCopy[r].nil /\ in[r].method \in BufferedMethods
    THEN [nil |-> FALSE, nobody |-> FALSE, len |-> bodyCopy[r].len, off |-> 0]
    ELSE IF ~rbody[r].nil /\ ~rbody[r].nobody
         THEN rbody[r]
         ELSE NilBody

\* the header of the outbound request of a ReverseProxy with a Director: the
\* inbound header less the hop-by-hop keys, and the client's address added
\* to X-Forwarded-For
ProxyOutHeader(h) ==
    HAdd([k \in (DOMAIN h) \ hopByHop |-> h[k]], "X-Forwarded-For", InboundRemoteIP)

ProxyForward(r) ==
    /\ pc[r] = "try"
    /\ LET be == proxyBackends[AttemptIndex(r) + 1]
           body == ProxyAttemptBody(r)
       IN  /\ att' = [att EXCEPT ![r] =
                        Append(@, [be |-> AttemptIndex(r), name |-> be.Name,
                                   transport |-> be.Transport,
                                   url |-> ProxyTarget(be, in[r].path, in[r].rawQuery),
                                   method |-> in[r].method,
                                   host |-> IF be.Mode = "fixed"
                                            THEN be.BaseURL.Host ELSE in[r].host,
                                   hdr |-> ProxyOutHeader(in[r].hdr),
                                   sent |-> TRUE, hasBody |-> ~body.nil,
                                   from |-> body.off, to |-> body.len,
                                   contentLength |-> AttemptContentLength(r),
                                   consumed |-> 0, ok |-> "pending"])]
           /\ outBody' = [outBody EXCEPT ![r] = body]
    /\ resp' = [resp EXCEPT ![r] = Pending]
    /\ pc' = [pc EXCEPT ![r] = "inflight"]
    /\ UNCHANGED <<rr, sel, in, rbody, bodyCopy, first, w>>
    /\ UNCHANGED <<ctxDone, join, loadVars>>

\* ReverseProxy copies the response header, less the hop-by-hop keys, onto
\* the writer's header with Add
ProxyCopyHeader(dst, src) ==
    LET keep == (DOMAIN src) \ hopByHop
    IN  [k \in (DOMAIN dst) \cup keep |->
            (IF k \in DOMAIN dst THEN dst[k] ELSE <<>>)
            \o (IF k \in keep THEN src[k] ELSE <<>>)]

\* be.Proxy.ServeHTTP(rec, r2) for outcome o: what reaches the client
\* through statusRecorder (part_003:151-154) and the ErrorHandler
\* (part_003:161-164, 190-193)
ProxyServe(wr, be, o) ==
    IF o.kind = TransportError
    THEN HttpError(wr, "Bad gateway", StatusBadGateway)
    ELSE LET rsp == Response(be, o)
             w1 == [wr EXCEPT !.hdr = ProxyCopyHeader(@, rsp.hdr)]
         IN  WWrite(WWriteHeader(w1, rsp.status), rsp.body)

\* rec.code after ServeHTTP
RecordedCode(o) == IF o.kind = TransportError THEN StatusBadGateway ELSE o.status

\* the failover test of part_003 (part_003:136-143)
proxyFailover(code) ==
    code \in {StatusBadGateway, StatusServiceUnavailable, StatusGatewayTimeout}

ProxyComplete(r, o) ==
    /\ pc[r] = "inflight"
    /\ ctxDone[r] => o.kind = TransportError
    /\ LET n == Len(att[r])
           be == proxyBackends[att[r][n].be + 1]
           served == ProxyServe(w[r], be, o)
       IN  /\ resp' = [resp EXCEPT ![r] = o]
           /\ \E k \in Consumed(o, outBody[r].len - outBody[r].off) :
                /\ outBody' = [outBody EXCEPT ![r] = NilBody]
                /\ rbody' = IF PassThrough(r)
                            THEN [rbody EXCEPT ![r].off = @ + k]
                            ELSE rbody
                /\ att' = [att EXCEPT ![r][n].consumed = k,
                                      ![r][n].ok = IF proxyFailover(RecordedCode(o))
                                                   THEN "false" ELSE "true"]
           /\ IF proxyFailover(RecordedCode(o))
              THEN IF n = 1
                   THEN /\ pc' = [pc EXCEPT ![r] = "try"]
                        /\ w' = [w EXCEPT ![r] = served]
                   ELSE /\ pc' = [pc EXCEPT ![r] = "done"]
                        /\ w' = [w EXCEPT ![r] = BothFailed(served)]
              ELSE /\ w' = [w EXCEPT ![r] = served]
                   /\ pc' = [pc EXCEPT ![r] = "done"]
    /\ UNCHANGED <<rr, sel, in, bodyCopy, first>>
    /\ UNCHANGED <<ctxDone, join, loadVars>>

ProxyNext ==
    \E r \in Reqs :
        \/ Arrive(r)
        \/ ProxyHealth(r)
        \/ Buffer(r)
        \/ Select(r)
        \/ ProxyForward(r)
        \/ \E o \in Outcomes : ProxyComplete(r, o)
        \/ Close(r)

SpecProxy == Init /\ [][ProxyNext]_vars

(***************************************************************************)
(* The load client (part_002): main spawns the workers behind a start      *)
(* barrier, closes the barrier and waits for them; every worker draws      *)
(* request indexes from nextIdx until the index it draws is not below n.   *)
(***************************************************************************)
\* the workers main spawned: workerID is w of "for w := 0; w < *concurrency; w++"
Workers == DOMAIN worker

\* what one iteration's request can come to: http.NewRequestWithContext
\* fails, client.Do fails (the per-request timeout included), or a response
\* with a status code arrives and its body is read and discarded
LoadStatuses == {200, 304, 404, 500}

LoadOutcomes ==
    {[kind |-> "newRequestErr", status |-> 0], [kind |-> "doErr", status |-> 0]}
        \cup {[kind |-> "response", status |-> s] : s \in LoadStatuses}

\* dur.Nanoseconds() of a request that was answered
Durations == {1}

\* atomic.AddUint64: the new value (a counter never reaches 2^64 here)
AtomicAddUint64(v, delta) == v + delta

\* variant of ClaimedIndex that takes the value after the increment
ClaimedIndexPostValue(got) == got

\* i := int(atomic.AddUint64(&nextIdx, 1) - 1), from the value the add returned
ClaimedIndex(got) == got - 1

\* resp.StatusCode >= 200 && resp.StatusCode < 300
Is2xx(code) == code >= 200 /\ code < 300

\* close(startCh)
CloseStartCh ==
    /\ main.pc = "spawned"
    /\ startCh' = "closed"
    /\ main' = [main EXCEPT !.pc = "waiting"]
    /\ UNCHANGED <<flags, nextIdx, okCount, errCount, status4xx, status5xx, statusOther,
                   latencies, wg, worker, claimed, attempted, stored>>
    /\ UNCHANGED brokerVars

\* <-startCh in a worker: returns once the channel is closed
WorkerStart(k) ==
    /\ worker[k].pc = "barrier"
    /\ startCh = "closed"
    /\ worker' = [worker EXCEPT ![k].pc = "loop"]
    /\ UNCHANGED <<flags, nextIdx, okCount, errCount, status4xx, status5xx, statusOther,
                   latencies, startCh, wg, main, claimed, attempted, stored>>
    /\ UNCHANGED brokerVars

\* the head of the loop: draw an index; return, and with it the deferred
\* wg.Done(), when the index is not below n
ClaimIndex(k) ==
    /\ worker[k].pc = "loop"
    /\ LET got == AtomicAddUint64(nextIdx, 1)
           i == ClaimedIndex(got)
       IN  /\ nextIdx' = got
           /\ claimed' = Append(claimed, [worker |-> k, i |-> i])
           /\ IF i >= flags.n
                THEN /\ worker' = [worker EXCEPT ![k].pc = "exited", ![k].i = i]
                     /\ wg' = wg - 1
                ELSE /\ worker' = [worker EXCEPT ![k].pc = "request", ![k].i = i]
                     /\ UNCHANGED wg
    /\ UNCHANGED <<flags, okCount, errCount, status4xx, status5xx, statusOther,
                   latencies, startCh, main, attempted, stored>>
    /\ UNCHANGED brokerVars

\* the request of one iteration: payload, NewRequestWithContext, client.Do,
\* the read of the body, dur
DoRequest(k, o) ==
    /\ worker[k].pc = "request"
    /\ attempted' = Append(attempted, [worker |-> k, i |-> worker[k].i])
    /\ \E d \in Durations :
          worker' = [worker EXCEPT
                        ![k].pc = "count",
                        ![k].resp = o,
                        ![k].dur = IF o.kind = "response" THEN d ELSE 0]
    /\ UNCHANGED <<flags, nextIdx, okCount, errCount, status4xx, status5xx, statusOther,
                   latencies, startCh, wg, main, claimed, stored>>
    /\ UNCHANGED brokerVars

\* atomic.AddUint64(&errCount, 1); continue, after a failed NewRequestWithContext
\* or a failed client.Do
CountErr(k) ==
    /\ worker[k].pc = "count"
    /\ worker[k].resp.kind \in {"newRequestErr", "doErr"}
    /\ errCount' = AtomicAddUint64(errCount, 1)
    /\ worker' = [worker EXCEPT ![k].pc = "loop", ![k].resp = NoResp]
    /\ UNCHANGED <<flags, nextIdx, okCount, status4xx, status5xx, statusOther,
                   latencies, startCh, wg, main, claimed, attempted, stored>>
    /\ UNCHANGED brokerVars

\* latencies[i] = dur.Nanoseconds(), a plain write
StoreLatency(k) ==
    /\ worker[k].pc = "count"
    /\ worker[k].resp.kind = "response"
    /\ Is2xx(worker[k].resp.status)
    /\ latencies' = [latencies EXCEPT ![worker[k].i] = worker[k].dur]
    /\ stored' = Append(stored, [worker |-> k, i |-> worker[k].i])
    /\ worker' = [worker EXCEPT ![k].pc = "ok"]
    /\ UNCHANGED <<flags, nextIdx, okCount, errCount, status4xx, status5xx, statusOther,
                   startCh, wg, main, claimed, attempted>>
    /\ UNCHANGED brokerVars

\* atomic.AddUint64(&okCount, 1)
CountOK(k) ==
    /\ worker[k].pc = "ok"
    /\ okCount' = AtomicAddUint64(okCount, 1)
    /\ worker' = [worker EXCEPT ![k].pc = "loop", ![k].resp = NoResp, ![k].dur = 0]
    /\ UNCHANGED <<flags, nextIdx, errCount, status4xx, status5xx, statusOther,
                   latencies, startCh, wg, main, claimed, attempted, stored>>
    /\ UNCHANGED brokerVars

\* atomic.AddUint64(&errCount, 1) for a response that is not 2xx
CountStatusErr(k) ==
    /\ worker[k].pc = "count"
    /\ worker[k].resp.kind = "response"
    /\ ~Is2xx(worker[k].resp.status)
    /\ errCount' = AtomicAddUint64(errCount, 1)
    /\ worker' = [worker EXCEPT ![k].pc = "class"]
    /\ UNCHANGED <<flags, nextIdx, okCount, status4xx, status5xx, statusOther,
                   latencies, startCh, wg, main, claimed, attempted, stored>>
    /\ UNCHANGED brokerVars

\* the switch on the class of the status code
CountStatusClass(k) ==
    /\ worker[k].pc = "class"
    /\ LET code == worker[k].resp.status
       IN  CASE code >= 400 /\ code < 500 ->
                    /\ status4xx' = AtomicAddUint64(status4xx, 1)
                    /\ UNCHANGED <<status5xx, statusOther>>
             [] code >= 500 /\ code < 600 ->
                    /\ status5xx' = AtomicAddUint64(status5xx, 1)
                    /\ UNCHANGED <<status4xx, statusOther>>
             [] OTHER ->
                    /\ statusOther' = AtomicAddUint64(statusOther, 1)
                    /\ UNCHANGED <<status4xx, status5xx>>
    /\ worker' = [worker EXCEPT ![k].pc = "loop", ![k].resp = NoResp, ![k].dur = 0]
    /\ UNCHANGED <<flags, nextIdx, okCount, errCount,
                   latencies, startCh, wg, main, claimed, attempted, stored>>
    /\ UNCHANGED brokerVars

\* wg.Wait() returns when the counter is zero; main then loads okCount and
\* errCount into ok and errs
WaitGroupWait ==
    /\ main.pc = "waiting"
    /\ wg = 0
    /\ main' = [pc |-> "reported", ok |-> okCount, errs |-> errCount]
    /\ UNCHANGED <<flags, nextIdx, okCount, errCount, status4xx, status5xx, statusOther,
                   latencies, startCh, wg, worker, claimed, attempted, stored>>
    /\ UNCHANGED brokerVars

\* one step of worker k
WorkerStep(k) ==
    /\ k \in Workers
    /\ \/ WorkerStart(k)
       \/ ClaimIndex(k)
       \/ \E o \in LoadOutcomes : DoRequest(k, o)
       \/ CountErr(k)
       \/ StoreLatency(k)
       \/ CountOK(k)
       \/ CountStatusErr(k)
       \/ CountStatusClass(k)

\* one step of main
MainStep == CloseStartCh \/ WaitGroupWait

LoadNext ==
    \/ CloseStartCh
    \/ WaitGroupWait
    \/ \E k \in Workers : WorkerStart(k)
    \/ \E k \in Workers : ClaimIndex(k)
    \/ \E k \in Workers, o \in LoadOutcomes : DoRequest(k, o)
    \/ \E k \in Workers : CountErr(k)
    \/ \E k \in Workers : StoreLatency(k)
    \/ \E k \in Workers : CountOK(k)
    \/ \E k \in Workers : CountStatusErr(k)
    \/ \E k \in Workers : CountStatusClass(k)

\* the load client started with any -n and -c that pass the validation
InitLoad ==
    /\ InitBroker
    /\ join = NoJoin
    /\ \E nn \in 1..MaxRequests, cc \in 1..MaxWorkers : InitLoadFor(nn, cc)

SpecLoad == InitLoad /\ [][LoadNext]_vars

\* the scheduler runs every goroutine that can take a step, and every
\* request returns (its context has the per-request timeout)
LoadFairness ==
    /\ WF_vars(MainStep)
    /\ \A k \in 0..(MaxWorkers - 1) : WF_vars(WorkerStep(k))

FairLoad == SpecLoad /\ LoadFairness

(***************************************************************************)
(* Properties.                                                             *)
(***************************************************************************)
\* http.Header.Values
HValues(h, k) ==
    IF CanonicalMIMEHeaderKey(k) \in DOMAIN h THEN h[CanonicalMIMEHeaderKey(k)] ELSE <<>>

\* the latest outbound request of slot r
Latest(r) == att[r][Len(att[r])]

\* serveBackend has returned for the latest outbound request of slot r
Returned(r) == Len(att[r]) > 0 /\ Latest(r).ok # "pending"

\* the outcomes the specification calls RETRY
RetryOutcome(o) == o.kind = "transportError" \/ o.status \in {502, 503, 504}

\* slot r serves a request of the proxy handler
Proxied(r) == pc[r] # "idle" /\ in[r].path # HealthPath

\* nothing of the response of slot r has been written
Untouched(r) == w[r].status = 0 /\ w[r].body = <<>> /\ DOMAIN w[r].hdr = {}

\* the outbound requests of slot r that reached the transport
SentAttempts(r) == {i \in 1..Len(att[r]) : att[r][i].sent}

\* C1: an attempt is given up (serveBackend returns false, and after the
\* first attempt the handler goes on to the other backend) if and only if it
\* ended in a transport error or in status 502, 503 or 504; with any other
\* status the response is relayed and the request is over.
C1_FailoverIff ==
    \A r \in Reqs :
        /\ Len(att[r]) = 2 => att[r][1].ok = "false"
        /\ Returned(r) =>
            /\ (Latest(r).ok = "false") <=> RetryOutcome(resp[r])
            /\ Len(att[r]) = 1 => ((pc[r] = "try") <=> RetryOutcome(resp[r]))
            /\ ~RetryOutcome(resp[r]) =>
                /\ pc[r] = "done"
                /\ w[r].status # 0
                /\ w[r].body # <<>>
                /\ w[r].body[Len(w[r].body)] = BackendBody(Latest(r).name, resp[r].status)

\* one request is about to fail over after a 504 while another one was
\* answered 404 by its primary and is over after one attempt
C1_Witness ==
    \E r, q \in Reqs :
        /\ pc[r] = "try" /\ Len(att[r]) = 1 /\ resp[r].status = 504
        /\ pc[q] = "done" /\ Len(att[q]) = 1 /\ resp[q].status = 404
        /\ w[q].status = 404

\* C2: a proxied request that is not rejected with 413 makes one or two
\* outbound attempts, the first to the primary and the second to
\* backends[(primaryIndex+1) mod 2], which is another backend.
C2_AttemptBudget ==
    \A r \in Reqs :
        /\ Len(att[r]) <= 2
        /\ Len(att[r]) >= 1 => att[r][1].be = first[r]
        /\ Len(att[r]) = 2 =>
            /\ att[r][2].be = (first[r] + 1) % 2
            /\ att[r][2].be # att[r][1].be
            /\ att[r][2].name # att[r][1].name
            /\ att[r][2].url.Host # att[r][1].url.Host
        /\ (pc[r] = "done" /\ Proxied(r) /\ w[r].status # 413) =>
            Cardinality(SentAttempts(r)) \in {1, 2}

\* a request that is over after two attempts
C2_Witness ==
    \E r \in Reqs : pc[r] = "done" /\ Cardinality(SentAttempts(r)) = 2

\* C3: nothing is written to the client before an attempt was accepted or
\* both attempts failed: WriteHeader is called at most once, and while the
\* handler is between or in its attempts the writer is untouched.
C3_TwoPhaseRelay ==
    \A r \in Reqs :
        /\ w[r].calls <= 1
        /\ pc[r] \in {"received", "select", "try", "inflight"} => Untouched(r)
        /\ (Proxied(r) /\ ~Untouched(r) /\ w[r].status # 413) =>
            \/ Returned(r) /\ Latest(r).ok = "true"
            \/ Len(att[r]) = 2 /\ att[r][1].ok = "false" /\ att[r][2].ok = "false"

\* C4: every outbound attempt of a request with a buffered body sends the
\* whole buffer, from its first byte, with the buffer's length as
\* Content-Length, so the second attempt sends what the first one sent.
C4_ReplayIdentical ==
    \A r \in Reqs :
        (in[r].method \in {"POST", "PUT", "PATCH"} /\ ~bodyCopy[r].nil) =>
            /\ \A i \in 1..Len(att[r]) :
                /\ att[r][i].hasBody
                /\ att[r][i].from = 0
                /\ att[r][i].to = bodyCopy[r].len
                /\ att[r][i].contentLength = bodyCopy[r].len
            /\ Len(att[r]) = 2 =>
                /\ att[r][2].from = att[r][1].from
                /\ att[r][2].to = att[r][1].to
                /\ att[r][2].contentLength = att[r][1].contentLength

\* two requests with a buffered body are at their second attempt, the first
\* attempt having read half of the body for one and all of it for the other
C4_Witness ==
    \E r, q \in Reqs :
        /\ Len(att[r]) = 2 /\ ~bodyCopy[r].nil /\ bodyCopy[r].len > 0
        /\ att[r][1].consumed = bodyCopy[r].len \div 2
        /\ Len(att[q]) = 2 /\ ~bodyCopy[q].nil /\ bodyCopy[q].len > 0
        /\ att[q][1].consumed = bodyCopy[q].len

\* C5 as stated: the request that finds the counter at c gets the primary
\* backends[c mod 2], the first request of a fresh broker backends[0].
C5_PrimaryFromPreValue ==
    /\ \A i \in 1..Len(sel) : sel[i].idx = sel[i].pre % 2
    /\ Len(sel) >= 1 => sel[1].idx = 0

\* C5 as amended: the primaries alternate, and the request that finds the
\* counter at c gets backends[(c+1) mod 2]; the first request of a fresh
\* broker gets backends[1].
C5_PrimaryAlternates ==
    /\ \A i \in 1..Len(sel) : sel[i].idx = (sel[i].pre + 1) % 2
    /\ \A i \in 2..Len(sel) : sel[i].idx # sel[i - 1].idx
    /\ Len(sel) >= 1 => (sel[1].pre = 0 /\ sel[1].idx = 1)
    /\ \A r \in Reqs : Len(att[r]) >= 1 => att[r][1].be = first[r]

\* three requests went through selection one after the other, none failing
C5_Witness ==
    /\ Len(sel) = 3
    /\ \A r \in Reqs : pc[r] \in {"idle", "done"}
    /\ \E r \in Reqs : pc[r] = "done" /\ first[r] = 1 /\ w[r].status = 200

\* C6: no two requests get the same counter value, whatever the
\* interleaving, so the numbers of requests with primary backends[0] and
\* with primary backends[1] differ by at most one.
C6_DistinctCounterValues ==
    /\ \A i, j \in 1..Len(sel) :
        i # j => (sel[i].pre # sel[j].pre /\ sel[i].got # sel[j].got)
    /\ LET zero == Cardinality({i \in 1..Len(sel) : sel[i].idx = 0})
           one == Cardinality({i \in 1..Len(sel) : sel[i].idx = 1})
       IN  zero - one \in {-1, 0, 1}

\* two requests are past selection and in flight at the same time
C6_Witness ==
    \E r, q \in Reqs :
        /\ r # q
        /\ pc[r] = "inflight" /\ pc[q] = "inflight"
        /\ Len(att[r]) = 1 /\ Len(att[q]) = 1
        /\ first[r] # first[q]

\* C7: when both attempts were given up the client gets status 502 with
\* the fixed message, after exactly two outbound attempts.
C7_BothFailed502 ==
    \A r \in Reqs :
        (Len(att[r]) = 2 /\ att[r][1].ok = "false" /\ att[r][2].ok = "false") =>
            /\ pc[r] = "done"
            /\ Cardinality(SentAttempts(r)) = 2
            /\ w[r].status = 502
            /\ w[r].body = <<"Both backends failed">>

\* C8: a relayed response carries X-Selected-Backend and X-Selected-URL,
\* naming the backend and the target URL of the attempt that was accepted,
\* and the status of that attempt.
C8_DiagnosticHeaders ==
    \A r \in Reqs :
        (pc[r] = "done" /\ Returned(r) /\ Latest(r).ok = "true") =>
            /\ w[r].status = resp[r].status
            /\ HValues(w[r].sent, "X-Selected-Backend") = <<Latest(r).name>>
            /\ HValues(w[r].sent, "X-Selected-URL") = <<Latest(r).url>>

\* C9: a response with a status other than 502, 503, 504 reaches the
\* client with the backend's status, body and content type, and the
\* selection header names the backend it came from.
C9_PassThrough ==
    \A r \in Reqs :
        (Returned(r) /\ resp[r].kind = "response" /\ resp[r].status \notin {502, 503, 504}) =>
            /\ w[r].status = resp[r].status
            /\ w[r].body = <<BackendBody(Latest(r).name, resp[r].status)>>
            /\ "Content-Type" \in DOMAIN w[r].sent
            /\ w[r].sent["Content-Type"] = <<"application/json">>
            /\ "X-Selected-Backend" \in DOMAIN w[r].sent
            /\ w[r].sent["X-Selected-Backend"] = <<Latest(r).name>>

\* the primary answered 404 and the client got that 404 after one attempt
C9_Witness ==
    \E r \in Reqs :
        /\ pc[r] = "done" /\ Len(att[r]) = 1 /\ att[r][1].be = first[r]
        /\ resp[r].status = 404 /\ w[r].status = 404

\* C10: the body of a proxied request of exactly MaxBodyBytes bytes is
\* captured whole and forwarded; a longer one is answered 413 before
\* selection, without any outbound attempt.
C10_BodyLimit ==
    \A r \in Reqs :
        (Proxied(r) /\ pc[r] # "received" /\ in[r].method \in {"POST", "PUT", "PATCH"}) =>
            /\ rbody[r].len <= MaxBodyBytes =>
                /\ ~bodyCopy[r].nil
                /\ bodyCopy[r].len = rbody[r].len
                /\ w[r].status # 413
                /\ \A i \in 1..Len(att[r]) : att[r][i].to - att[r][i].from = rbody[r].len
            /\ rbody[r].len > MaxBodyBytes =>
                /\ pc[r] = "done"
                /\ w[r].status = 413
                /\ w[r].body = <<"Request body too large or invalid">>
                /\ att[r] = <<>>
                /\ first[r] = -1

\* a body of MaxBodyBytes bytes was forwarded whole, and a body of
\* MaxBodyBytes+1 bytes was answered 413
C10_Witness ==
    \E r, q \in Reqs :
        /\ rbody[r].len = MaxBodyBytes /\ Len(att[r]) >= 1
        /\ att[r][1].to - att[r][1].from = MaxBodyBytes
        /\ Proxied(q) /\ rbody[q].len = MaxBodyBytes + 1
        /\ pc[q] = "done" /\ w[q].status = 413

\* the header names the specification calls hop-by-hop
HopByHopNames ==
    {"Connection", "Proxy-Connection", "Keep-Alive", "Proxy-Authenticate",
     "Proxy-Authorization", "TE", "Trailer", "Transfer-Encoding", "Upgrade"}

\* header h has a field named k
HHas(h, k) == CanonicalMIMEHeaderKey(k) \in DOMAIN h

\* C11: on every outbound attempt, no hop-by-hop header of the inbound
\* request and no X-Selected-Backend or X-Selected-URL the client sent is
\* present, and every other inbound header is there with all its values.
C11_HeaderFiltering ==
    \A r \in Reqs : \A i \in SentAttempts(r) :
        /\ \A k \in HopByHopNames : ~HHas(att[r][i].hdr, k)
        /\ ~HHas(att[r][i].hdr, "X-Selected-Backend")
        /\ ~HHas(att[r][i].hdr, "X-Selected-URL")
        /\ \A k \in DOMAIN in[r].hdr :
            (k \notin {CanonicalMIMEHeaderKey(x) :
                          x \in HopByHopNames \cup {"X-Selected-Backend", "X-Selected-URL"}})
                => (k \in DOMAIN att[r][i].hdr /\ att[r][i].hdr[k] = in[r].hdr[k])

\* C12: when the client goes away during an attempt, the attempt counts as
\* a failure, and when the request is over the handler has reported neither
\* the 502 of two failed backends nor a success.
C12_CancelSurfaced ==
    \A r \in Reqs :
        (ctxDone[r] /\ Returned(r)) =>
            /\ Latest(r).ok = "false"
            /\ pc[r] = "done" =>
                /\ ~(w[r].status = 502 /\ w[r].body = <<"Both backends failed">>)
                /\ w[r].status \notin 200..399

\* C13: the counter starts at zero and every step adds to it the number of
\* requests that pass selection in that step, which is one for the step of
\* selection and zero for every other step: a health check, a 413, an
\* attempt, a failover and the 502 leave it alone, and it never goes down.
C13_CounterCountsSelections ==
    /\ rr = 0
    /\ [][LET passed == {r \in Reqs : pc[r] = "select" /\ pc'[r] = "try"}
          IN  /\ rr' = rr + Cardinality(passed)
              /\ Cardinality(passed) <= 1
              /\ Len(sel') = Len(sel) + Cardinality(passed)]_vars

\* two requests went through selection: one is over with the 502 of two
\* failed attempts; a third request was rejected with 413
C13_Witness ==
    \E r, q \in Reqs :
        /\ rr = 2
        /\ pc[r] = "done" /\ w[r].status = 413 /\ first[r] = -1
        /\ pc[q] = "done" /\ Len(att[q]) = 2 /\ att[q][2].ok = "false"
        /\ w[q].status = 502

\* everything the handler goroutine of slot r holds
SlotState(r) ==
    <<pc[r], in[r], rbody[r], bodyCopy[r], first[r], att[r], outBody[r], resp[r],
      w[r], ctxDone[r]>>

\* C14: the order of a request's attempts is a function of the counter value
\* it drew and of nothing else: the primary is fixed at selection from that
\* value, attempt number n goes to backends[(primary + n - 1) mod 2] whatever
\* happened to other requests, and a step of one request leaves everything
\* the other requests hold as it was.
C14_Stateless ==
    [][\A r \in Reqs :
        /\ (pc[r] = "select" /\ pc'[r] = "try") => first'[r] = (rr + 1) % 2
        /\ (pc[r] \in {"try", "inflight"}) => first'[r] = first[r]
        /\ Len(att'[r]) = Len(att[r]) + 1 =>
              att'[r][Len(att'[r])].be = (first[r] + Len(att[r])) % 2
        /\ SlotState(r)' # SlotState(r) =>
              \A q \in Reqs \ {r} : SlotState(q)' = SlotState(q)]_vars

\* a request has its first attempt at the backend that failed as the primary
\* of another request still at hand
C14_Witness ==
    \E r, q \in Reqs :
        /\ r # q
        /\ Len(att[q]) >= 1 /\ att[q][1].ok = "false"
        /\ Len(att[r]) = 1 /\ att[r][1].be = att[q][1].be
        /\ first[r] = first[q]

\* C15: a request to /health is answered 200 with the body "ok", whatever
\* its method and body and whatever the backends do, without reading its
\* body, drawing a counter value or making an outbound attempt.
C15_Health ==
    \A r \in Reqs :
        (pc[r] # "idle" /\ in[r].path = <<"/", "health">>) =>
            /\ att[r] = <<>>
            /\ first[r] = -1
            /\ rbody[r].off = 0
            /\ pc[r] \in {"received", "done"}
            /\ pc[r] = "done" =>
                /\ w[r].status = 200
                /\ w[r].body = <<"ok">>
                /\ w[r].calls = 1

\* a POST to /health with a body over the limit was answered 200 "ok" while
\* another request got the 502 of two failed backends
C15_Witness ==
    \E r, q \in Reqs :
        /\ pc[r] = "done" /\ in[r].path = <<"/", "health">> /\ in[r].method = "POST"
        /\ rbody[r].len > MaxBodyBytes
        /\ w[r].status = 200 /\ w[r].body = <<"ok">>
        /\ pc[q] = "done" /\ Len(att[q]) = 2 /\ att[q][2].ok = "false"

\* C16: the body of a request with a method other than POST, PUT, PATCH is
\* handed to at most one outbound attempt, and no attempt gets a body
\* stream that an earlier attempt has read from.
C16_StreamNotRetried ==
    \A r \in Reqs :
        (Proxied(r) /\ in[r].method \notin {"POST", "PUT", "PATCH"} /\ rbody[r].len > 0) =>
            /\ Cardinality({i \in SentAttempts(r) : att[r][i].hasBody}) <= 1
            /\ \A i \in SentAttempts(r) : att[r][i].hasBody => att[r][i].from = 0

\* s without its leading slashes
StripLeadingSlashes(s) ==
    LET n == Cardinality({i \in 1..Len(s) : \A j \in 1..i : s[j] = "/"})
    IN  SubSeq(s, n + 1, Len(s))

\* s without its trailing slashes
StripTrailingSlashes(s) ==
    LET n == Cardinality({i \in 1..Len(s) : \A j \in i..Len(s) : s[j] = "/"})
    IN  SubSeq(s, 1, Len(s) - n)

\* C17: the path joinURL yields is the base path, one slash, and the
\* incoming path, however many slashes the base path ends with and the
\* incoming path begins with, also for a base path that is empty or "/";
\* the query is the raw query it was given.
C17_JoinOneSlash ==
    join.called =>
        /\ join.out.Path =
              StripTrailingSlashes(join.base) \o <<"/">> \o StripLeadingSlashes(join.path)
        /\ join.out.RawQuery = join.rawQuery

\* C18: every outbound request names the host and the scheme of the
\* client-facing request in forwarding headers (X-Forwarded-Host and
\* X-Forwarded-Proto, or Forwarded), at the first and at the second attempt.
C18_ForwardingMetadata ==
    \A r \in Reqs : \A i \in SentAttempts(r) :
        \/ /\ HValues(att[r][i].hdr, "X-Forwarded-Host") = <<in[r].host>>
           /\ HValues(att[r][i].hdr, "X-Forwarded-Proto") = <<InboundScheme>>
        \/ HHas(att[r][i].hdr, "Forwarded")

\* C19: calls to different backends go over different transports, so that
\* no connection pool is shared by the two backends.
C19_DedicatedPools ==
    \A r, q \in Reqs : \A i \in SentAttempts(r), j \in SentAttempts(q) :
        att[r][i].be # att[q][j].be => att[r][i].transport # att[q][j].transport

\* how far the handler of slot r has come: RECEIVED, SELECT, ATTEMPT(primary)
\* before and after the call is out, ATTEMPT(secondary) likewise, the end
Stage(r) ==
    CASE pc[r] = "idle" -> 0
      [] pc[r] = "received" -> 1
      [] pc[r] = "select" -> 2
      [] pc[r] = "try" -> 3 + 2 * Len(att[r])
      [] pc[r] = "inflight" -> 2 + 2 * Len(att[r])
      [] pc[r] = "done" -> 7

\* the three ends of a proxied request
Relayed(r) ==
    /\ Returned(r) /\ Latest(r).ok = "true"
    /\ w[r].status = resp[r].status

FailBoth(r) ==
    /\ Len(att[r]) = 2 /\ att[r][1].ok = "false" /\ att[r][2].ok = "false"
    /\ w[r].status = 502 /\ w[r].body = <<"Both backends failed">>

Rejected(r) == att[r] = <<>> /\ w[r].status = 413

\* C20: every request that came in reaches its end; on the way the handler
\* only moves forward through RECEIVED, SELECT, ATTEMPT(primary),
\* ATTEMPT(secondary) and never comes back to a stage; a proxied request ends
\* in exactly one of relayed response, 502 of both backends, 413; and a
\* handler that is not at its end can always take its next step, whatever
\* the other requests are doing.
C20_Terminates ==
    /\ \A r \in Reqs : (pc[r] = "received") ~> (pc[r] = "done")
    /\ [][\A r \in Reqs :
            Stage(r)' # Stage(r) =>
                \/ Stage(r)' > Stage(r)
                \/ pc[r] = "done" /\ pc'[r] = "idle"]_vars
    /\ [](\A r \in Reqs :
            /\ Stage(r) <= 7
            /\ (pc[r] = "done" /\ Proxied(r)) =>
                  Cardinality({x \in {"relayed", "failboth", "rejected"} :
                                  \/ x = "relayed" /\ Relayed(r)
                                  \/ x = "failboth" /\ FailBoth(r)
                                  \/ x = "rejected" /\ Rejected(r)}) = 1
            /\ pc[r] \in {"received", "select", "try", "inflight"} => ENABLED HandlerStep(r))

\* the three ends side by side: one request was rejected with 413 while
\* another one got the 502 of both backends, after a request was relayed
C20_Witness ==
    \E r, q \in Reqs :
        /\ pc[r] = "done" /\ Proxied(r) /\ Rejected(r)
        /\ pc[q] = "done" /\ Proxied(q) /\ FailBoth(q)
        /\ rr = 2

\* the header of the backend response that slot r has relayed
RelayedHeader(r) == BackendHeader(resp[r].status)

\* C21: when the relayed backend response itself carries X-Selected-Backend,
\* X-Selected-URL or a hop-by-hop header, none of them reaches the client:
\* the client sees the two selection headers with the values the broker set
\* for the accepted attempt, and no hop-by-hop header of the backend.
C21_NoSpoofing ==
    \A r \in Reqs :
        (pc[r] = "done" /\ Returned(r) /\ Latest(r).ok = "true"
         /\ resp[r].kind = "response"
         /\ \E k \in HopByHopNames \cup {"X-Selected-Backend", "X-Selected-URL"} :
               HHas(RelayedHeader(r), k)) =>
            /\ HValues(w[r].sent, "X-Selected-Backend") = <<Latest(r).name>>
            /\ HValues(w[r].sent, "X-Selected-URL") = <<Latest(r).url>>
            /\ \A k \in HopByHopNames :
                  HHas(RelayedHeader(r), k) => ~HHas(w[r].sent, k)

\* the claims of index i, in the order of the atomic adds
ClaimsOf(i) == SelectSeq(claimed, LAMBDA c : c.i = i)

\* the requests made for index i
AttemptsOf(i) == SelectSeq(attempted, LAMBDA a : a.i = i)

\* the writes of latencies[i]
StoresOf(i) == SelectSeq(stored, LAMBDA c : c.i = i)

\* the request indexes
Indexes == 0..(flags.n - 1)

\* a worker is inside an iteration of its loop
InIteration(k) == worker[k].pc \in {"request", "count", "ok", "class"}

\* every worker of a started load client has returned
AllExited == flags.concurrency > 0 /\ \A k \in Workers : worker[k].pc = "exited"

\* C22: under any interleaving of the c workers every request index in
\* [0, n) is claimed by at most one worker, and by exactly one once all
\* workers have exited; two workers are never inside an iteration with the
\* same index and a latency slot is written only by the worker that claimed
\* it; one request is made per claimed index, n in all; every worker
\* terminates; and when all workers have exited okCount + errCount = n,
\* which is what main then reads.
C22_EachIndexOnce ==
    /\ [](\A i \in Indexes :
            /\ Len(ClaimsOf(i)) <= 1
            /\ Len(AttemptsOf(i)) <= Len(ClaimsOf(i))
            /\ \A j \in 1..Len(StoresOf(i)) :
                  /\ j = 1
                  /\ StoresOf(i)[j].worker = ClaimsOf(i)[1].worker)
    /\ [](\A k1, k2 \in Workers :
            (k1 # k2 /\ InIteration(k1) /\ InIteration(k2)) => worker[k1].i # worker[k2].i)
    /\ [](\A j \in 1..Len(attempted) : attempted[j].i \in Indexes)
    /\ <>AllExited
    /\ [](AllExited =>
            /\ \A i \in Indexes : Len(ClaimsOf(i)) = 1 /\ Len(AttemptsOf(i)) = 1
            /\ Len(attempted) = flags.n
            /\ okCount + errCount = flags.n
            /\ nextIdx = flags.n + flags.concurrency)
    /\ [](main.pc = "reported" => AllExited /\ main.ok + main.errs = flags.n)

\* all workers have exited after two of them claimed different indexes
\* below n, one request counted as ok and one as an error
C22_Witness ==
    /\ AllExited
    /\ main.pc = "reported"
    /\ flags.n = 2
    /\ okCount = 1
    /\ errCount = 1
    /\ latencies[1] > 0
    /\ ClaimsOf(0) # <<>>
    /\ ClaimsOf(1) # <<>>
    /\ ClaimsOf(0)[1].worker # ClaimsOf(1)[1].worker

====
